---------------------------- MODULE Spec2Model ----------------------------
(* Model of src/src/filesystem.cpp (MEGA SDK generic filesystem layer):   *)
(* the name codec (escapefsincompatible / unescapefsincompatible /        *)
(* canonicalize), the escape-aware comparators (localCompare /            *)
(* remoteCompare), getlocalfstype, the AsyncIOContext / FileAccess        *)
(* asynchronous I/O state machine and the DirNotify notification funnel.  *)
(* Names and paths are sequences of bytes (0..255).                       *)
EXTENDS Integers, Sequences, FiniteSets, Bags, TLC

\* ------------------------------------------------------------------ bounds

\* Longest name of the codec specification, counted in pieces of CodecPieces.
MaxPieces == 3

\* Longest path of the comparator specification, counted in pieces of
\* ComparePieces.
MaxComparePieces == 2

\* Longest path, in bytes, of the filesystem-type specification.
MaxPathLen == 5

\* Number of AsyncIOContext objects that can be alive at once.
MaxContexts == 2

\* Times other events may wake one destructor before their notifications stop.
MaxWakeups == 2

\* DirNotify::notify calls.
MaxNotifications == 2

\* The last tick of Waiter::ds.
MaxTick == 2

\* Pieces a LocalPath of the path operations is built from.
MaxPathPieces == 3

\* Names handed to a NamePtrCmp have at most this many pieces.
MaxNamePieces == 2

\* ------------------------------------------------------------- byte helpers

\* s[i] as the C++ code reads it from the string's buffer: the byte at 1-based
\* index i, and the terminating NUL at index Len(s)+1.
ByteAt(s, i) == IF i >= 1 /\ i <= Len(s) THEN s[i] ELSE 0

\* std::string::replace(pos, count, with), pos being the 1-based index i.
Replace(s, i, count, with) ==
    SubSeq(s, 1, i - 1) \o with \o SubSeq(s, i + count, Len(s))

\* std::iscntrl in the "C" locale.
iscntrl(c) == (c >= 0 /\ c < 32) \/ c = 127

\* islchex: a lowercase hexadecimal digit.
islchex(c) == (c >= 48 /\ c <= 57) \/ (c >= 97 /\ c <= 102)

\* hexval: the value of a hexadecimal digit.
hexval(c) == IF c >= 48 /\ c <= 57 THEN c - 48 ELSE c - 87

\* One digit of sprintf's %02x.
HexDigit(v) == IF v < 10 THEN 48 + v ELSE 87 + v

\* sprintf(buffer, "%%%02x", character) for a character in 0..255.
EscapeToken(c) == <<37, HexDigit(c \div 16), HexDigit(c % 16)>>

\* Utils::utf8SequenceSize: the length of the UTF-8 sequence a byte starts.
utf8SequenceSize(c) ==
    IF c <= 127 THEN 1
    ELSE IF c >= 192 /\ c <= 223 THEN 2
    ELSE IF c >= 224 /\ c <= 239 THEN 3
    ELSE IF c >= 240 /\ c <= 247 THEN 4
    ELSE 1

\* ------------------------------------------------------------ FileSystemType

FileSystemTypes ==
    {"FS_UNKNOWN", "FS_APFS", "FS_HFS", "FS_EXT", "FS_FAT32", "FS_EXFAT",
     "FS_NTFS", "FS_FUSE", "FS_SDCARDFS", "FS_F2FS", "FS_XFS"}

\* The bytes of the literal "\\/:?\"<>|*" that strchr searches.
FatForbidden == {92, 47, 58, 63, 34, 60, 62, 124, 42}

\* Mutant: '%' is left to the per-filesystem policy instead of always escaped.
islocalfscompatible_PercentAllowed(character, type) ==
    IF character = 0 THEN FALSE
    ELSE IF type \in {"FS_APFS", "FS_HFS"} THEN character # 58 /\ character # 47
    ELSE IF type \in {"FS_EXT", "FS_F2FS", "FS_XFS"} THEN character # 47
    ELSE ~(iscntrl(character) \/ character \in FatForbidden)

\* Mutant: the test for NUL is missing.
islocalfscompatible_NulToPolicy(character, type) ==
    IF character = 37 THEN FALSE
    ELSE IF type \in {"FS_APFS", "FS_HFS"} THEN character # 58 /\ character # 47
    ELSE IF type \in {"FS_EXT", "FS_F2FS", "FS_XFS"} THEN character # 47
    ELSE ~(iscntrl(character) \/ character = 0 \/ character \in FatForbidden)

\* FileSystemAccess::islocalfscompatible
islocalfscompatible(character, type) ==
    IF character = 0 THEN FALSE
    ELSE IF character = 37 THEN FALSE
    ELSE IF type \in {"FS_APFS", "FS_HFS"} THEN character # 58 /\ character # 47
    ELSE IF type \in {"FS_EXT", "FS_F2FS", "FS_XFS"} THEN character # 47
    ELSE ~(iscntrl(character) \/ character \in FatForbidden)

\* ------------------------------------------------------------------ NameCodec

\* FileSystemAccess::isEscape(const char*) at index i of s.
isEscapeAt(s, i) ==
    /\ ByteAt(s, i) = 37
    /\ islchex(ByteAt(s, i + 1))
    /\ islchex(ByteAt(s, i + 2))

\* FileSystemAccess::decodeEscape(const char*) at index i of s: -1 when no
\* escape token starts there.
decodeEscapeAt(s, i) ==
    IF ~isEscapeAt(s, i) THEN -1
    ELSE hexval(ByteAt(s, i + 1)) * 16 + hexval(ByteAt(s, i + 2))

\* The loop of escapefsincompatible from index i on.
RECURSIVE EscapeLoop(_, _, _)
EscapeLoop(name, i, type) ==
    IF i > Len(name) THEN name
    ELSE
        LET d  == decodeEscapeAt(name, i)
            n1 == IF d >= 0 /\ iscntrl(d) THEN Replace(name, i, 3, <<d>>) ELSE name
            character == n1[i]
            seqsize == utf8SequenceSize(character)
        IN  IF seqsize = 1 /\ ~islocalfscompatible(character, type)
            THEN EscapeLoop(Replace(n1, i, 1, EscapeToken(character)), i + 3, type)
            ELSE EscapeLoop(n1, i + seqsize, type)

\* FileSystemAccess::escapefsincompatible
escapefsincompatible(name, type) ==
    IF name = <<46, 46>> THEN <<37, 50, 101, 37, 50, 101>>
    ELSE IF name = <<46>> THEN <<37, 50, 101>>
    ELSE EscapeLoop(name, 1, type)

\* Mutant: after substituting a decoded byte the loop looks at the same index
\* again, so a decoded '%' can start a second token.
RECURSIVE UnescapeLoop_Rescan(_, _)
UnescapeLoop_Rescan(name, i) ==
    IF i > Len(name) THEN name
    ELSE
        LET character == name[i]
            d == decodeEscapeAt(name, i)
        IN  IF iscntrl(character)
            THEN UnescapeLoop_Rescan(Replace(name, i, 1, EscapeToken(character)), i + 3)
            ELSE IF d < 0 THEN UnescapeLoop_Rescan(name, i + 1)
            ELSE IF iscntrl(d) THEN UnescapeLoop_Rescan(name, i + 3)
            ELSE UnescapeLoop_Rescan(Replace(name, i, 3, <<d>>), i)

\* The loop of unescapefsincompatible from index i on.
RECURSIVE UnescapeLoop(_, _)
UnescapeLoop(name, i) ==
    IF i > Len(name) THEN name
    ELSE
        LET character == name[i]
            d == decodeEscapeAt(name, i)
        IN  IF iscntrl(character)
            THEN UnescapeLoop(Replace(name, i, 1, EscapeToken(character)), i + 3)
            ELSE IF d < 0 THEN UnescapeLoop(name, i + 1)
            ELSE IF iscntrl(d) THEN UnescapeLoop(name, i + 3)
            ELSE UnescapeLoop(Replace(name, i, 3, <<d>>), i + 1)

\* FileSystemAccess::unescapefsincompatible
unescapefsincompatible(name) ==
    IF name = <<37, 50, 101, 37, 50, 101>> THEN <<46, 46>>
    ELSE IF name = <<37, 50, 101>> THEN <<46>>
    ELSE UnescapeLoop(name, 1)

\* Mutant: the skip after an inserted token is one byte too long.
RECURSIVE CanonicalizeLoop_Overskip(_, _)
CanonicalizeLoop_Overskip(name, i) ==
    IF i > Len(name) THEN name
    ELSE
        LET character == name[i]
        IN  IF iscntrl(character)
            THEN CanonicalizeLoop_Overskip(
                     Replace(name, i, 1, EscapeToken(character)), i + 4)
            ELSE IF decodeEscapeAt(name, i) >= 0
            THEN CanonicalizeLoop_Overskip(name, i + 3)
            ELSE CanonicalizeLoop_Overskip(name, i + 1)

\* The loop of canonicalize from index i on.
RECURSIVE CanonicalizeLoop(_, _)
CanonicalizeLoop(name, i) ==
    IF i > Len(name) THEN name
    ELSE
        LET character == name[i]
        IN  IF iscntrl(character)
            THEN CanonicalizeLoop(Replace(name, i, 1, EscapeToken(character)), i + 3)
            ELSE IF decodeEscapeAt(name, i) >= 0 THEN CanonicalizeLoop(name, i + 3)
            ELSE CanonicalizeLoop(name, i + 1)

\* FileSystemAccess::canonicalize
canonicalize(name) == CanonicalizeLoop(name, 1)

\* ---------------------------------------------------------- UnicodeComparator

\* UnicodeCodepointIterator<char>::end at index i of s.
itEnd(s, i) == i > Len(s)

\* UnicodeCodepointIterator<char>::get at index i of s: the codepoint of the
\* UTF-8 sequence that starts there and the index after it; 0, without
\* advancing, at the end.
itGet(s, i) ==
    IF itEnd(s, i) THEN [cp |-> 0, next |-> i]
    ELSE
        LET b == s[i]
            n == utf8SequenceSize(b)
        IN  IF n = 1 THEN [cp |-> b, next |-> i + 1]
            ELSE IF n = 2
            THEN [cp |-> (b - 192) * 64 + (ByteAt(s, i + 1) - 128), next |-> i + 2]
            ELSE IF n = 3
            THEN [cp |-> (b - 224) * 4096 + (ByteAt(s, i + 1) - 128) * 64
                         + (ByteAt(s, i + 2) - 128),
                  next |-> i + 3]
            ELSE [cp |-> (b - 240) * 262144 + (ByteAt(s, i + 1) - 128) * 4096
                         + (ByteAt(s, i + 2) - 128) * 64 + (ByteAt(s, i + 3) - 128),
                  next |-> i + 4]

\* detail::isEscape(it): three successive get() on a copy of the iterator.
isEscape(s, i) ==
    LET g1 == itGet(s, i)
        g2 == itGet(s, g1.next)
        g3 == itGet(s, g2.next)
    IN  g1.cp = 37 /\ islchex(g2.cp) /\ islchex(g3.cp)

\* detail::decodeEscape(it): skips the '%' and combines the two digits; the
\* iterator is left after the token. The two get() calls of the return
\* statement are taken in the order they are written (the language leaves
\* the order of the operands of | unspecified), which is also what the
\* pointer overload FileSystemAccess::decodeEscape computes from s[1], s[2].
decodeEscape(s, i) ==
    LET g1 == itGet(s, i)
        g2 == itGet(s, g1.next)
        g3 == itGet(s, g2.next)
    IN  [cp |-> hexval(g2.cp) * 16 + hexval(g3.cp), next |-> g3.next]

\* detail::isControlEscape(it)
isControlEscape(s, i) ==
    IF isEscape(s, i)
    THEN LET c == decodeEscape(s, i).cp IN c < 32 \/ c = 127
    ELSE FALSE

\* detail::identity
identity(c) == c

\* Utils::toUpper (utf8proc_toupper) on the codepoints below U+0100 that
\* have a simple uppercase mapping below U+0100.
toUpper(c) ==
    IF c >= 97 /\ c <= 122 THEN c - 32
    ELSE IF c >= 224 /\ c <= 254 /\ c # 247 THEN c - 32
    ELSE c

\* The UnaryOperation passed to the comparators, named by a tag.
Transform(t, c) ==
    IF t = "toUpper" THEN toUpper(c) ELSE identity(c)

\* Mutant: a fully consumed first stream sorts last instead of first.
RECURSIVE localCompare_PrefixLast(_, _, _, _, _)
localCompare_PrefixLast(s1, first1, s2, first2, xform) ==
    IF itEnd(s1, first1) \/ itEnd(s2, first2)
    THEN IF itEnd(s1, first1) /\ itEnd(s2, first2) THEN 0
         ELSE IF itEnd(s1, first1) THEN 1
         ELSE 1
    ELSE
        LET g1 == IF isEscape(s1, first1) THEN decodeEscape(s1, first1)
                  ELSE itGet(s1, first1)
            g2 == IF isEscape(s2, first2) THEN decodeEscape(s2, first2)
                  ELSE itGet(s2, first2)
            c1 == Transform(xform, g1.cp)
            c2 == Transform(xform, g2.cp)
        IN  IF c1 # c2 THEN c1 - c2
            ELSE localCompare_PrefixLast(s1, g1.next, s2, g2.next, xform)

\* detail::localCompare: both sides decode every escape token.
RECURSIVE localCompare(_, _, _, _, _)
localCompare(s1, first1, s2, first2, xform) ==
    IF itEnd(s1, first1) \/ itEnd(s2, first2)
    THEN IF itEnd(s1, first1) /\ itEnd(s2, first2) THEN 0
         ELSE IF itEnd(s1, first1) THEN -1
         ELSE 1
    ELSE
        LET g1 == IF isEscape(s1, first1) THEN decodeEscape(s1, first1)
                  ELSE itGet(s1, first1)
            g2 == IF isEscape(s2, first2) THEN decodeEscape(s2, first2)
                  ELSE itGet(s2, first2)
            c1 == Transform(xform, g1.cp)
            c2 == Transform(xform, g2.cp)
        IN  IF c1 # c2 THEN c1 - c2
            ELSE localCompare(s1, g1.next, s2, g2.next, xform)

\* Mutant: the remote side decodes every escape token, like the local side.
RECURSIVE remoteCompare_Symmetric(_, _, _, _, _)
remoteCompare_Symmetric(s1, first1, s2, first2, xform) ==
    IF itEnd(s1, first1) \/ itEnd(s2, first2)
    THEN IF itEnd(s1, first1) /\ itEnd(s2, first2) THEN 0
         ELSE IF itEnd(s1, first1) THEN -1
         ELSE 1
    ELSE
        LET g1 == IF isEscape(s1, first1) THEN decodeEscape(s1, first1)
                  ELSE itGet(s1, first1)
            g2 == IF isEscape(s2, first2) THEN decodeEscape(s2, first2)
                  ELSE itGet(s2, first2)
            c1 == Transform(xform, g1.cp)
            c2 == Transform(xform, g2.cp)
        IN  IF c1 # c2 THEN c1 - c2
            ELSE remoteCompare_Symmetric(s1, g1.next, s2, g2.next, xform)

\* detail::remoteCompare: the local side (first1) decodes every escape token,
\* the remote side (first2) only the tokens of control bytes.
RECURSIVE remoteCompare(_, _, _, _, _)
remoteCompare(s1, first1, s2, first2, xform) ==
    IF itEnd(s1, first1) \/ itEnd(s2, first2)
    THEN IF itEnd(s1, first1) /\ itEnd(s2, first2) THEN 0
         ELSE IF itEnd(s1, first1) THEN -1
         ELSE 1
    ELSE
        LET g1 == IF isEscape(s1, first1) THEN decodeEscape(s1, first1)
                  ELSE itGet(s1, first1)
            g2 == IF isControlEscape(s2, first2) THEN decodeEscape(s2, first2)
                  ELSE itGet(s2, first2)
            c1 == Transform(xform, g1.cp)
            c2 == Transform(xform, g2.cp)
        IN  IF c1 # c2 THEN c1 - c2
            ELSE remoteCompare(s1, g1.next, s2, g2.next, xform)

\* isCaseInsensitive(const FileSystemType)
isCaseInsensitive(type) ==
    \/ type = "FS_EXFAT"
    \/ type = "FS_FAT32"
    \/ type = "FS_NTFS"
    \/ type = "FS_UNKNOWN"

\* NamePtrCmp::operator(): the int that detail::remoteCompare returns is
\* returned as a bool, which is true for every value but 0.
NamePtrCmp(type, lhs, rhs) ==
    LET transform == IF isCaseInsensitive(type) THEN "toUpper" ELSE "identity"
    IN  remoteCompare(lhs, 1, rhs, 1, transform) # 0

\* LocalPath::compare(const LocalPath&)
LocalPath_compare(lhs, rhs) == localCompare(lhs, 1, rhs, 1, "identity")

\* LocalPath::ciCompare(const LocalPath&)
LocalPath_ciCompare(lhs, rhs) == localCompare(lhs, 1, rhs, 1, "toUpper")

\* LocalPath::compare(const string&)
LocalPath_compareRemote(lhs, rhs) == remoteCompare(lhs, 1, rhs, 1, "identity")

\* LocalPath::ciCompare(const string&)
LocalPath_ciCompareRemote(lhs, rhs) == remoteCompare(lhs, 1, rhs, 1, "toUpper")

\* ------------------------------------------------------------ LocalPath algebra

\* FileSystemAccess::localseparator on the platforms getPathSeparator gives
\* "/" for.
localseparator == 47

\* LocalPath::endsInSeparator
endsInSeparator(localpath) ==
    localpath # <<>> /\ localpath[Len(localpath)] = localseparator

\* Mutant: the trailing separator is kept.
trimNonDriveTrailingSeparator_Keep(localpath) == localpath

\* LocalPath::trimNonDriveTrailingSeparator (not WIN32)
trimNonDriveTrailingSeparator(localpath) ==
    IF endsInSeparator(localpath)
    THEN SubSeq(localpath, 1, Len(localpath) - 1)
    ELSE localpath

\* The loop of getLeafnameByteIndex; p is the 0-based byte index of the code.
RECURSIVE LeafnameLoop(_, _)
LeafnameLoop(localpath, p) ==
    IF p = 0 THEN 0
    ELSE LET q == p - 1
         IN  IF q = 0 THEN 0
             ELSE IF localpath[q + 1] = localseparator THEN q + 1
             ELSE LeafnameLoop(localpath, q)

\* LocalPath::getLeafnameByteIndex
getLeafnameByteIndex(localpath) == LeafnameLoop(localpath, Len(localpath))

\* LocalPath::truncate
truncate(localpath, bytePos) == SubSeq(localpath, 1, bytePos)

\* std::string::npos
npos == -1

\* std::string::find_last_of(ch): the 0-based index of the last ch, or npos.
find_last_of(localpath, ch) ==
    LET at == {i \in 1..Len(localpath) : localpath[i] = ch}
    IN  IF at = {} THEN npos
        ELSE (CHOOSE i \in at : \A j \in at : j <= i) - 1

\* std::string::find_first_of(ch), for the mutant below.
find_first_of(localpath, ch) ==
    LET at == {i \in 1..Len(localpath) : localpath[i] = ch}
    IN  IF at = {} THEN npos
        ELSE (CHOOSE i \in at : \A j \in at : i <= j) - 1

\* LocalPath::leafName
leafName(localpath) ==
    LET found == find_last_of(localpath, localseparator)
        from == IF found = npos THEN 0 ELSE found + 1
    IN  SubSeq(localpath, from + 1, Len(localpath))

\* LocalPath::subpathFrom
subpathFrom(localpath, bytePos) == SubSeq(localpath, bytePos + 1, Len(localpath))

\* LocalPath::beginsWithSeparator
beginsWithSeparator(localpath) ==
    localpath # <<>> /\ localpath[1] = localseparator

\* LocalPath::appendWithSeparator: localpath afterwards.
appendWithSeparator(localpath, additionalPath, separatorAlways) ==
    LET separated ==
            IF (separatorAlways \/ Len(localpath) # 0)
               /\ ~endsInSeparator(localpath)
            THEN Append(localpath, localseparator)
            ELSE localpath
    IN  separated \o additionalPath

\* LocalPath::prependWithSeparator: localpath afterwards.
prependWithSeparator(localpath, additionalPath) ==
    LET separated ==
            IF localpath # <<>> /\ localpath[1] # localseparator
               /\ ~endsInSeparator(additionalPath)
            THEN <<localseparator>> \o localpath
            ELSE localpath
    IN  additionalPath \o separated

\* operator<<(unsigned): the decimal digits of counter, as bytes.
RECURSIVE DecimalDigits(_)
DecimalDigits(counter) ==
    IF counter < 10 THEN <<48 + counter>>
    ELSE Append(DecimalDigits(counter \div 10), 48 + (counter % 10))

\* oss << " (" << counter << ")"
CounterText(counter) == <<32, 40>> \o DecimalDigits(counter) \o <<41>>

\* LocalPath::fromPath(path).localpath: path2local of the platform, which
\* leaves the characters of the counter text as they are.
fromPath(text) == text

\* Mutant: the extension is taken from the first '.' of the path.
insertFilenameCounter_FirstDot(localpath, counter) ==
    LET dotindex == find_first_of(localpath, 46)
        sepindex == find_last_of(localpath, localseparator)
        whole == dotindex = npos \/ (sepindex # npos /\ sepindex > dotindex)
        result == IF whole THEN localpath ELSE SubSeq(localpath, 1, dotindex)
        extension == IF whole THEN <<>>
                     ELSE SubSeq(localpath, dotindex + 1, Len(localpath))
    IN  result \o fromPath(CounterText(counter)) \o extension

\* LocalPath::insertFilenameCounter: the LocalPath returned.
insertFilenameCounter(localpath, counter) ==
    LET dotindex == find_last_of(localpath, 46)
        sepindex == find_last_of(localpath, localseparator)
        whole == dotindex = npos \/ (sepindex # npos /\ sepindex > dotindex)
        result == IF whole THEN localpath ELSE SubSeq(localpath, 1, dotindex)
        extension == IF whole THEN <<>>
                     ELSE SubSeq(localpath, dotindex + 1, Len(localpath))
    IN  result \o fromPath(CounterText(counter)) \o extension

\* The directory a path names: its non-empty components, relative paths
\* being taken from the root.
RECURSIVE Components(_)
Components(localpath) ==
    IF localpath = <<>> THEN <<>>
    ELSE LET n == CHOOSE k \in 1..(Len(localpath) + 1) :
                      /\ k = Len(localpath) + 1 \/ localpath[k] = localseparator
                      /\ \A j \in 1..(k - 1) : localpath[j] # localseparator
             head == SubSeq(localpath, 1, n - 1)
             rest == Components(SubSeq(localpath, n + 1, Len(localpath)))
         IN  IF head = <<>> THEN rest ELSE <<head>> \o rest

\* The filesystem type the platform reports for each directory that exists.
MountType(dir) ==
    IF dir = <<>> THEN "FS_EXT"
    ELSE IF dir = <<<<97>>>> THEN "FS_NTFS"
    ELSE IF dir = <<<<98>>>> THEN "FS_APFS"
    ELSE IF dir = <<<<97>>, <<97>>>> THEN "FS_FAT32"
    ELSE IF dir = <<<<97>>, <<98>>>> THEN "FS_EXFAT"
    ELSE IF dir = <<<<98>>, <<97>>>> THEN "FS_HFS"
    ELSE "FS_XFS"

\* The platform's getlocalfstype(path, type): whether it succeeds, and the
\* type it stores, for the directories in exists.
PlatformResolves(exists, localpath) ==
    localpath # <<>> /\ Components(localpath) \in exists

PlatformType(localpath) == MountType(Components(localpath))

\* FileSystemAccess::getlocalfstype(const LocalPath&)
getlocalfstype(exists, path) ==
    IF path = <<>> THEN "FS_UNKNOWN"
    ELSE IF PlatformResolves(exists, path) THEN PlatformType(path)
    ELSE
        LET trimmed == trimNonDriveTrailingSeparator(path)
            index == getLeafnameByteIndex(trimmed)
            parentPath == truncate(trimmed, index)
        IN  IF trimmed = <<>> THEN "FS_UNKNOWN"
            ELSE IF index # 0 /\ PlatformResolves(exists, parentPath)
            THEN PlatformType(parentPath)
            ELSE "FS_UNKNOWN"

\* ------------------------------------------------ FileAccess / AsyncIOContext

\* The (mtime, size) pairs sysstat may report.
FileStamps == {<<1, 10>>, <<2, 10>>, <<1, 20>>}

\* FileAccess::FileAccess: no reader outstanding and no async handle; the
\* cached (mtime, size) is the pair the file had when it was opened.
NewFileAccess(nonblockingOpened, stamp) ==
    [numAsyncReads |-> 0, isAsyncOpened |-> FALSE,
     nonblocking |-> nonblockingOpened,
     mtime |-> stamp[1], size |-> stamp[2], retry |-> FALSE]

\* Mutant: the reader is counted only once the handle is known to be usable.
asyncopenf_CountOnSuccess(f, statOk, curr, openOk, transient) ==
    IF ~f.nonblocking
    THEN [ok |-> TRUE, fa |-> [f EXCEPT !.numAsyncReads = @ + 1], opened |-> FALSE]
    ELSE IF f.isAsyncOpened
    THEN [ok |-> TRUE, fa |-> [f EXCEPT !.numAsyncReads = @ + 1], opened |-> FALSE]
    ELSE IF ~statOk
    THEN [ok |-> FALSE, fa |-> [f EXCEPT !.retry = transient], opened |-> FALSE]
    ELSE IF curr[1] # f.mtime \/ curr[2] # f.size
    THEN [ok |-> FALSE,
          fa |-> [f EXCEPT !.mtime = curr[1], !.size = curr[2], !.retry = FALSE],
          opened |-> FALSE]
    ELSE IF openOk
    THEN [ok |-> TRUE,
          fa |-> [f EXCEPT !.numAsyncReads = @ + 1, !.isAsyncOpened = TRUE],
          opened |-> TRUE]
    ELSE [ok |-> FALSE, fa |-> [f EXCEPT !.retry = transient], opened |-> FALSE]

\* FileAccess::asyncopenf on the FileAccess f. statOk and curr are what sysstat
\* answers, openOk what sysopen answers, transient the retry flag the
\* platform leaves behind when one of them fails. Gives the return value, the
\* FileAccess afterwards and whether sysopen opened the handle.
asyncopenf(f, statOk, curr, openOk, transient) ==
    LET counted == [f EXCEPT !.numAsyncReads = @ + 1]
    IN  IF ~f.nonblocking
        THEN [ok |-> TRUE, fa |-> counted, opened |-> FALSE]
        ELSE IF f.isAsyncOpened
        THEN [ok |-> TRUE, fa |-> counted, opened |-> FALSE]
        ELSE IF ~statOk
        THEN [ok |-> FALSE, fa |-> [counted EXCEPT !.retry = transient],
              opened |-> FALSE]
        ELSE IF curr[1] # f.mtime \/ curr[2] # f.size
        THEN [ok |-> FALSE,
              fa |-> [counted EXCEPT !.mtime = curr[1], !.size = curr[2],
                                     !.retry = FALSE],
              opened |-> FALSE]
        ELSE IF openOk
        THEN [ok |-> TRUE, fa |-> [counted EXCEPT !.isAsyncOpened = TRUE],
              opened |-> TRUE]
        ELSE [ok |-> FALSE, fa |-> [counted EXCEPT !.retry = transient],
              opened |-> FALSE]

\* FileAccess::asyncclosef: the FileAccess afterwards and whether sysclose
\* was called.
asyncclosef(f) ==
    LET n == f.numAsyncReads - 1
    IN  IF f.isAsyncOpened /\ n = 0
        THEN [fa |-> [f EXCEPT !.numAsyncReads = n, !.isAsyncOpened = FALSE],
              closed |-> TRUE]
        ELSE [fa |-> [f EXCEPT !.numAsyncReads = n], closed |-> FALSE]

\* Mutant: on a mismatch the cached pair is not refreshed.
openf_KeepStalePair(f, statOk, curr, openOk, transient) ==
    IF ~f.nonblocking
    THEN [ok |-> TRUE, fa |-> f, statted |-> FALSE, mismatch |-> FALSE,
          opened |-> FALSE]
    ELSE IF ~statOk
    THEN [ok |-> FALSE, fa |-> [f EXCEPT !.retry = transient],
          statted |-> TRUE, mismatch |-> FALSE, opened |-> FALSE]
    ELSE IF curr[1] # f.mtime \/ curr[2] # f.size
    THEN [ok |-> FALSE, fa |-> [f EXCEPT !.retry = FALSE],
          statted |-> TRUE, mismatch |-> TRUE, opened |-> FALSE]
    ELSE IF openOk
    THEN [ok |-> TRUE, fa |-> f, statted |-> TRUE, mismatch |-> FALSE,
          opened |-> TRUE]
    ELSE [ok |-> FALSE, fa |-> [f EXCEPT !.retry = transient],
          statted |-> TRUE, mismatch |-> FALSE, opened |-> FALSE]

\* FileAccess::openf on the FileAccess f, with the answers of sysstat and
\* sysopen as for asyncopenf. Gives the return value, the FileAccess
\* afterwards, whether sysstat was called, whether the mismatch branch
\* was taken and whether sysopen opened the handle.
openf(f, statOk, curr, openOk, transient) ==
    IF ~f.nonblocking
    THEN [ok |-> TRUE, fa |-> f, statted |-> FALSE, mismatch |-> FALSE,
          opened |-> FALSE]
    ELSE IF ~statOk
    THEN [ok |-> FALSE, fa |-> [f EXCEPT !.retry = transient],
          statted |-> TRUE, mismatch |-> FALSE, opened |-> FALSE]
    ELSE IF curr[1] # f.mtime \/ curr[2] # f.size
    THEN [ok |-> FALSE,
          fa |-> [f EXCEPT !.mtime = curr[1], !.size = curr[2], !.retry = FALSE],
          statted |-> TRUE, mismatch |-> TRUE, opened |-> FALSE]
    ELSE IF openOk
    THEN [ok |-> TRUE, fa |-> f, statted |-> TRUE, mismatch |-> FALSE,
          opened |-> TRUE]
    ELSE [ok |-> FALSE, fa |-> [f EXCEPT !.retry = transient],
          statted |-> TRUE, mismatch |-> FALSE, opened |-> FALSE]

\* FileAccess::closef: whether sysclose is called.
closef(f) == f.nonblocking

\* A slot of the context table that holds no AsyncIOContext.
NoContext ==
    [live |-> FALSE, op |-> "NONE", finished |-> FALSE, failed |-> FALSE,
     retry |-> FALSE, callbacks |-> 0, fallback |-> FALSE]

\* FileAccess::newasynccontext followed by the caller's assignment of op.
NewContext(op) ==
    [live |-> TRUE, op |-> op, finished |-> FALSE, failed |-> FALSE,
     retry |-> FALSE, callbacks |-> 0, fallback |-> FALSE]

\* The context once the operation has completed: failed, retry and finished
\* are stored and userCallback(userData) is called; callbacks counts the
\* calls.
Completed(c, failed, retry) ==
    [c EXCEPT !.finished = TRUE, !.failed = failed, !.retry = retry,
              !.callbacks = @ + 1]

\* Mutant: the fallback completes the context without calling userCallback.
asyncsys_NoCallback(context) ==
    [context EXCEPT !.finished = TRUE, !.failed = TRUE, !.retry = FALSE,
                    !.fallback = TRUE]

\* FileAccess::asyncsysopen / asyncsysread / asyncsyswrite of this file:
\* failed = true, retry = false, finished = true, then the callback;
\* fallback records that the context was completed here.
asyncsys(context) ==
    [Completed(context, TRUE, FALSE) EXCEPT !.fallback = TRUE]

\* Mutant: the destructor's loop is left as soon as the waiter wakes up.
FinishLoopExits_OnWakeup(finished, woken) == finished \/ woken

\* AsyncIOContext::finish: the condition of while (!finished), negated;
\* woken tells whether waiter->wait() has just returned.
FinishLoopExits(finished, woken) == finished

\* ------------------------------------------------------------------- state

VARIABLES
    \* NameCodec specification: the input name and filesystem type, the stage
    \* reached, the string the last operation returned and its argument.
    inName, fsType, stage, out, prev, cmp

codecVars == <<inName, fsType, stage, out, prev, cmp>>

VARIABLES
    \* UnicodeComparator specification: the two LocalPaths compared, the
    \* transform ("identity" for compare, "toUpper" for ciCompare), and the
    \* results of compare(lhs, rhs), compare(rhs, lhs) and compare(lhs, lhs).
    lhs, rhs, transform, cmpStage, result, reverse, self

compareVars == <<lhs, rhs, transform, cmpStage, result, reverse, self>>

VARIABLES
    \* Filesystem-type specification: the directories that exist, the path
    \* asked about and the type getlocalfstype returned.
    exists, path, fsStage, fsResult

fsTypeVars == <<exists, path, fsStage, fsResult>>

VARIABLES
    \* Asynchronous I/O specification.
    fa,              \* the FileAccess
    fileStamp,       \* the file's current (mtime, size)
    handleOpen,      \* whether the platform handle (sysopen/sysclose) is open
    backend,         \* "portable": the asyncsys* fallbacks of this file;
                     \* "platform": overrides that complete later
    ctx,             \* the bag of AsyncIOContext objects that exist
    notified,        \* the Waiter: a notification is pending
    dtor,            \* the context whose destructor runs (NoContext: none)
    dtorPc,          \* where that destructor is
    finishedAtEntry, \* finished, as the destructor found it on entry
    dtorWaits,       \* waiter->wait() calls of that destructor
    dtorNotifies,    \* waiter->notify() calls of that destructor
    opens,           \* successful sysopen calls since no reader was outstanding
    strayClose       \* sysclose was called while a reader was outstanding

asyncVars ==
    <<fa, fileStamp, handleOpen, backend, ctx, notified, dtor, dtorPc,
      finishedAtEntry, dtorWaits, dtorNotifies, opens, strayClose>>

VARIABLES
    \* DirNotify and its NotificationDeque.
    mFailed,         \* DirNotify::mFailed
    mFailReason,     \* DirNotify::mFailReason
    mMutex,          \* DirNotify::mMutex is held
    setPc,           \* where the watcher thread is inside setFailed
    errCode,         \* setFailed's arguments
    errReason,
    getPc,           \* where the consumer thread is inside getFailed
    testedFailed,    \* the value of mFailed that if (mFailed) read
    reason,          \* getFailed's out-parameter
    returned,        \* getFailed's return value
    notifyq,         \* the NotificationDeque
    ds,              \* Waiter::ds
    pushed,          \* the notify calls so far: arguments, clock, failure state
    popped           \* the notifications the consumer has popped, in order

failVars == <<mFailed, mFailReason, mMutex, setPc, errCode, errReason>>

getVars == <<getPc, testedFailed, reason, returned>>

queueVars == <<notifyq, ds, pushed, popped>>

notifyVars == <<failVars, getVars, queueVars>>

VARIABLES
    \* One call of islocalfscompatible.
    compatChar,      \* the argument character
    compatType,      \* the argument type
    compatStage,     \* "input", then "done"
    compatible       \* the return value

compatVars == <<compatChar, compatType, compatStage, compatible>>

VARIABLES
    \* FileAccess::openf / closef around a blocking operation.
    openfStage,      \* "ready": openf may be called; "opened": it returned true
    openfLast        \* the last openf call: FileAccess before it, what sysstat
                     \* and sysopen answered, what it returned, and whether
                     \* the call before it failed for a mismatch

openfVars == <<openfStage, openfLast>>

VARIABLES
    \* One operation of the LocalPath algebra.
    lpOp,            \* the operation called
    lpInput,         \* the receiver's localpath before the call
    lpLocalpath,     \* the receiver's localpath
    lpOther,         \* the argument additionalPath
    lpAlways,        \* the argument separatorAlways
    lpCounter,       \* the argument counter
    lpStage,         \* "input", then "done"
    lpResult,        \* the LocalPath returned
    lpIndex          \* the index returned

pathVars ==
    <<lpOp, lpInput, lpLocalpath, lpOther, lpAlways, lpCounter, lpStage,
      lpResult, lpIndex>>

VARIABLES
    \* One call of a NamePtrCmp: the filesystem type it was built with, the
    \* two names, and what operator() returned for (lhs, rhs), (rhs, lhs) and
    \* (lhs, lhs).
    mType, nameLhs, nameRhs, namePtrStage, forward, backward, same

namePtrVars == <<mType, nameLhs, nameRhs, namePtrStage, forward, backward, same>>

laterVars == <<compatVars, openfVars, pathVars, namePtrVars>>

vars == <<codecVars, compareVars, fsTypeVars, asyncVars, notifyVars, laterVars>>

\* --------------------------------------------------- NameCodec specification

\* The pieces names are built from: '%', '.', the control byte 0x01, ':',
\* '2', 'e', the control escape token "%01" and the two-byte character U+00E9.
CodecPieces ==
    {<<37>>, <<46>>, <<1>>, <<58>>, <<50>>, <<101>>, <<37, 48, 49>>, <<195, 169>>}

RECURSIVE NamesOf(_, _)
NamesOf(pieces, n) ==
    IF n = 0 THEN {<<>>}
    ELSE LET shorter == NamesOf(pieces, n - 1)
         IN  shorter \cup {s \o p : s \in shorter, p \in pieces}

CodecNames == NamesOf(CodecPieces, MaxPieces)

CodecIdle ==
    /\ inName = <<>> /\ fsType = "FS_UNKNOWN" /\ stage = "idle"
    /\ out = <<>> /\ prev = <<>> /\ cmp = 0

CompareIdle ==
    /\ lhs = <<>> /\ rhs = <<>> /\ transform = "identity" /\ cmpStage = "idle"
    /\ result = 0 /\ reverse = 0 /\ self = 0

FsTypeIdle ==
    /\ exists = {<<>>} /\ path = <<>> /\ fsStage = "idle" /\ fsResult = "FS_UNKNOWN"

AsyncIdle ==
    /\ fa = NewFileAccess(FALSE, <<1, 10>>) /\ fileStamp = <<1, 10>>
    /\ handleOpen = FALSE /\ backend = "portable" /\ ctx = EmptyBag
    /\ notified = FALSE /\ dtor = NoContext /\ dtorPc = "idle"
    /\ finishedAtEntry = FALSE /\ dtorWaits = 0 /\ dtorNotifies = 0
    /\ opens = 0 /\ strayClose = FALSE

NotifyIdle ==
    /\ mFailed = 1 /\ mFailReason = "Not initialized" /\ mMutex = FALSE
    /\ setPc = "none" /\ errCode = 0 /\ errReason = ""
    /\ getPc = "none" /\ testedFailed = 0 /\ reason = "" /\ returned = 0
    /\ notifyq = <<>> /\ ds = 1 /\ pushed = <<>> /\ popped = <<>>

CompatIdle ==
    /\ compatChar = 0 /\ compatType = "FS_UNKNOWN" /\ compatStage = "none"
    /\ compatible = FALSE

\* No openf call has been made.
NoOpenfCall ==
    [called |-> FALSE, before |-> NewFileAccess(FALSE, <<1, 10>>),
     stamp |-> <<1, 10>>, statOk |-> FALSE, openOk |-> FALSE,
     transient |-> FALSE, ok |-> FALSE, statted |-> FALSE,
     mismatch |-> FALSE, opened |-> FALSE, previousMismatch |-> FALSE,
     previousStamp |-> <<1, 10>>]

OpenfIdle == openfStage = "none" /\ openfLast = NoOpenfCall

PathIdle ==
    /\ lpOp = "none" /\ lpInput = <<>> /\ lpLocalpath = <<>> /\ lpOther = <<>>
    /\ lpAlways = FALSE /\ lpCounter = 0 /\ lpStage = "none"
    /\ lpResult = <<>> /\ lpIndex = 0

NamePtrIdle ==
    /\ mType = "FS_UNKNOWN" /\ nameLhs = <<>> /\ nameRhs = <<>>
    /\ namePtrStage = "idle"
    /\ forward = FALSE /\ backward = FALSE /\ same = FALSE

\* No call of the operations of the later sections is in progress.
LaterIdle ==
    /\ CompatIdle
    /\ OpenfIdle
    /\ PathIdle
    /\ NamePtrIdle

CodecInit ==
    /\ CompareIdle
    /\ FsTypeIdle
    /\ AsyncIdle
    /\ NotifyIdle
    /\ LaterIdle
    /\ inName \in CodecNames
    /\ fsType \in FileSystemTypes
    /\ stage = "input"
    /\ out = inName
    /\ prev = inName
    /\ cmp = 0

\* escapefsincompatible(&name, fsType) on the input name.
Escape ==
    /\ stage = "input"
    /\ out' = escapefsincompatible(inName, fsType)
    /\ prev' = inName
    /\ stage' = "escaped"
    /\ UNCHANGED <<inName, fsType, cmp, compareVars, fsTypeVars, asyncVars, notifyVars, laterVars>>

\* escapefsincompatible applied to its own output.
EscapeAgain ==
    /\ stage = "escaped"
    /\ out' = escapefsincompatible(out, fsType)
    /\ prev' = out
    /\ stage' = "escaped2"
    /\ UNCHANGED <<inName, fsType, cmp, compareVars, fsTypeVars, asyncVars, notifyVars, laterVars>>

\* unescapefsincompatible applied to the escaped name (LocalPath::toName).
Unescape ==
    /\ stage = "escaped"
    /\ out' = unescapefsincompatible(out)
    /\ prev' = out
    /\ stage' = "unescaped"
    /\ UNCHANGED <<inName, fsType, cmp, compareVars, fsTypeVars, asyncVars, notifyVars, laterVars>>

\* canonicalize(name) on the input name.
Canonicalize ==
    /\ stage = "input"
    /\ out' = canonicalize(inName)
    /\ prev' = inName
    /\ stage' = "canon"
    /\ UNCHANGED <<inName, fsType, cmp, compareVars, fsTypeVars, asyncVars, notifyVars, laterVars>>

\* canonicalize applied to its own output.
CanonicalizeAgain ==
    /\ stage = "canon"
    /\ out' = canonicalize(out)
    /\ prev' = out
    /\ stage' = "canon2"
    /\ UNCHANGED <<inName, fsType, cmp, compareVars, fsTypeVars, asyncVars, notifyVars, laterVars>>

\* LocalPath::compare(const string&): the escaped name on the local side
\* against the original name on the remote side.
CompareRemote ==
    /\ stage = "escaped"
    /\ cmp' = LocalPath_compareRemote(out, inName)
    /\ stage' = "compared"
    /\ UNCHANGED <<inName, fsType, out, prev, compareVars, fsTypeVars, asyncVars, notifyVars, laterVars>>

CodecNext ==
    \/ Escape
    \/ CompareRemote
    \/ EscapeAgain
    \/ Unescape
    \/ Canonicalize
    \/ CanonicalizeAgain

SpecCodec == CodecInit /\ [][CodecNext]_vars

\* ------------------------------------------- UnicodeComparator specification

\* The pieces: 'a', 'A', '%', the escape token "%41" (an 'A') and the
\* two-byte character U+00E9.
ComparePieces == {<<97>>, <<65>>, <<37>>, <<37, 52, 49>>, <<195, 169>>}

CompareNames == NamesOf(ComparePieces, MaxComparePieces)

CompareInit ==
    /\ CodecIdle
    /\ FsTypeIdle
    /\ AsyncIdle
    /\ NotifyIdle
    /\ LaterIdle
    /\ lhs \in CompareNames
    /\ rhs \in CompareNames
    /\ transform \in {"identity", "toUpper"}
    /\ cmpStage = "input"
    /\ result = 0
    /\ reverse = 0
    /\ self = 0

\* LocalPath::compare(const LocalPath&): lhs against rhs, rhs against lhs and
\* lhs against itself.
Compare ==
    /\ cmpStage = "input"
    /\ transform = "identity"
    /\ result' = LocalPath_compare(lhs, rhs)
    /\ reverse' = LocalPath_compare(rhs, lhs)
    /\ self' = LocalPath_compare(lhs, lhs)
    /\ cmpStage' = "compared"
    /\ UNCHANGED <<lhs, rhs, transform, codecVars, fsTypeVars, asyncVars, notifyVars, laterVars>>

\* LocalPath::ciCompare(const LocalPath&): the same three calls.
CiCompare ==
    /\ cmpStage = "input"
    /\ transform = "toUpper"
    /\ result' = LocalPath_ciCompare(lhs, rhs)
    /\ reverse' = LocalPath_ciCompare(rhs, lhs)
    /\ self' = LocalPath_ciCompare(lhs, lhs)
    /\ cmpStage' = "compared"
    /\ UNCHANGED <<lhs, rhs, transform, codecVars, fsTypeVars, asyncVars, notifyVars, laterVars>>

CompareNext ==
    \/ Compare
    \/ CiCompare

SpecCompare == CompareInit /\ [][CompareNext]_vars

\* --------------------------------------------- filesystem-type specification

\* The bytes paths are made of: the separator, 'a' and 'b'.
PathBytes == {localseparator, 97, 98}

Paths == UNION {[1..n -> PathBytes] : n \in 0..MaxPathLen}

\* The directories that may exist, down to two levels below the root.
Directories ==
    {<<>>} \cup {<<x>> : x \in {<<97>>, <<98>>}}
           \cup {<<x, y>> : x \in {<<97>>, <<98>>}, y \in {<<97>>, <<98>>}}

\* A directory exists only under an existing parent; the root always exists.
Worlds ==
    {w \in SUBSET Directories :
        /\ <<>> \in w
        /\ \A d \in w : d # <<>> => SubSeq(d, 1, Len(d) - 1) \in w}

FsTypeInit ==
    /\ CodecIdle
    /\ CompareIdle
    /\ AsyncIdle
    /\ NotifyIdle
    /\ LaterIdle
    /\ exists \in Worlds
    /\ path \in Paths
    /\ fsStage = "input"
    /\ fsResult = "FS_UNKNOWN"

\* FileSystemAccess::getlocalfstype(path)
GetLocalFsType ==
    /\ fsStage = "input"
    /\ fsResult' = getlocalfstype(exists, path)
    /\ fsStage' = "done"
    /\ UNCHANGED <<exists, path, codecVars, compareVars, asyncVars, notifyVars, laterVars>>

FsTypeNext == GetLocalFsType

SpecFsType == FsTypeInit /\ [][FsTypeNext]_vars

\* --------------------------------------------- asynchronous I/O specification

\* The AsyncIOContext objects that exist: those in ctx and the one under
\* destruction.
NumContexts == BagCardinality(ctx) + (IF dtor.live THEN 1 ELSE 0)

AsyncInit ==
    /\ CodecIdle
    /\ CompareIdle
    /\ FsTypeIdle
    /\ NotifyIdle
    /\ LaterIdle
    /\ \E nb \in BOOLEAN : fa = NewFileAccess(nb, <<1, 10>>)
    /\ fileStamp = <<1, 10>>
    /\ handleOpen = FALSE
    /\ backend \in {"portable", "platform"}
    /\ ctx = EmptyBag
    /\ notified = FALSE
    /\ dtor = NoContext
    /\ dtorPc = "none"
    /\ finishedAtEntry = FALSE
    /\ dtorWaits = 0
    /\ dtorNotifies = 0
    /\ opens = 0
    /\ strayClose = FALSE

\* The client thread is not inside a destructor.
ClientIdle == dtorPc = "none"

\* The client may create one more context.
CanCreate == ClientIdle /\ NumContexts < MaxContexts

dtorVars == <<dtor, dtorPc, finishedAtEntry, dtorWaits, dtorNotifies>>

otherVars == <<codecVars, compareVars, fsTypeVars, notifyVars, laterVars>>

\* asyncsysopen / asyncsysread / asyncsyswrite on a new context: the fallback
\* of this file fails it at once and calls userCallback (asyncopfinished:
\* waiter->notify()); a platform override starts the operation and returns.
AsyncSys(context) ==
    IF backend = "portable"
    THEN /\ ctx' = ctx (+) SetToBag({asyncsys(context)})
         /\ notified' = TRUE
    ELSE /\ ctx' = ctx (+) SetToBag({context})
         /\ UNCHANGED notified

\* FileAccess::asyncfopen(const LocalPath&)
AsyncFOpen ==
    /\ CanCreate
    /\ \E statOk \in BOOLEAN, transient \in BOOLEAN :
          /\ fa' = IF statOk
                   THEN [fa EXCEPT !.nonblocking = TRUE,
                                   !.mtime = fileStamp[1], !.size = fileStamp[2]]
                   ELSE [fa EXCEPT !.nonblocking = TRUE, !.retry = transient]
          /\ ctx' = ctx (+) SetToBag({Completed(NewContext("OPEN"), ~statOk,
                                                fa'.retry)})
          /\ notified' = TRUE
    /\ UNCHANGED <<fileStamp, handleOpen, backend, opens, strayClose,
                   dtorVars, otherVars>>

\* FileAccess::asyncfopen(const LocalPath&, bool read, bool write, m_off_t)
AsyncFOpenAccess ==
    /\ CanCreate
    /\ AsyncSys(NewContext("OPEN"))
    /\ UNCHANGED <<fa, fileStamp, handleOpen, backend, opens,
                   strayClose, dtorVars, otherVars>>

\* FileAccess::asyncfwrite
AsyncFWrite ==
    /\ CanCreate
    /\ AsyncSys(NewContext("WRITE"))
    /\ UNCHANGED <<fa, fileStamp, handleOpen, backend, opens,
                   strayClose, dtorVars, otherVars>>

\* FileAccess::asyncfread
AsyncFRead ==
    /\ CanCreate
    /\ \E statOk \in BOOLEAN, openOk \in BOOLEAN, transient \in BOOLEAN :
          LET r == asyncopenf(fa, statOk, fileStamp, openOk, transient)
          IN  /\ fa' = r.fa
              /\ handleOpen' = (handleOpen \/ r.opened)
              /\ opens' = IF r.opened THEN (IF opens < 2 THEN opens + 1 ELSE 2)
                          ELSE opens
              /\ IF ~r.ok
                 THEN /\ ctx' = ctx (+) SetToBag({Completed(NewContext("READ"),
                                                            TRUE, r.fa.retry)})
                      /\ notified' = TRUE
                 ELSE AsyncSys(NewContext("READ"))
    /\ UNCHANGED <<fileStamp, backend, strayClose, dtorVars, otherVars>>

\* A platform backend completes a pending operation and calls userCallback;
\* the operation may be the one whose context is under destruction.
OperationCompletes ==
    /\ \E failed \in BOOLEAN, retry \in BOOLEAN :
          \/ /\ dtor.live
             /\ ~dtor.finished
             /\ dtor' = Completed(dtor, failed, failed /\ retry)
             /\ UNCHANGED ctx
          \/ /\ \E c \in BagToSet(ctx) :
                   /\ ~c.finished
                   /\ ctx' = (ctx (-) SetToBag({c}))
                                (+) SetToBag({Completed(c, failed, failed /\ retry)})
             /\ UNCHANGED dtor
    /\ notified' = TRUE
    /\ UNCHANGED <<fa, fileStamp, handleOpen, backend, opens, strayClose,
                   dtorPc, finishedAtEntry, dtorWaits, dtorNotifies, otherVars>>

\* Another event notifies the same waiter.
ExternalNotify ==
    /\ dtorWaits < MaxWakeups
    /\ notified' = TRUE
    /\ UNCHANGED <<fa, fileStamp, handleOpen, backend, ctx, opens, strayClose,
                   dtorVars, otherVars>>

\* The client's own loop consumes a notification.
ClientWait ==
    /\ ClientIdle
    /\ notified
    /\ notified' = FALSE
    /\ UNCHANGED <<fa, fileStamp, handleOpen, backend, ctx, opens,
                   strayClose, dtorVars, otherVars>>

\* The file is modified on disk.
FileChanges ==
    /\ \E stamp \in FileStamps \ {fileStamp} : fileStamp' = stamp
    /\ UNCHANGED <<fa, handleOpen, backend, ctx, notified, opens,
                   strayClose, dtorVars, otherVars>>

\* AsyncIOContext::~AsyncIOContext is entered and finish() tests
\* if (!finished).
DtorBegin ==
    /\ ClientIdle
    /\ \E c \in BagToSet(ctx) :
          /\ ctx' = ctx (-) SetToBag({c})
          /\ dtor' = c
          /\ finishedAtEntry' = c.finished
          /\ dtorPc' = IF c.finished THEN "close" ELSE "loop"
    /\ dtorWaits' = 0
    /\ dtorNotifies' = 0
    /\ UNCHANGED <<fa, fileStamp, handleOpen, backend, notified,
                   opens, strayClose, otherVars>>

\* finish(): while (!finished) { waiter->init(NEVER); ...
DtorLoop ==
    /\ dtorPc = "loop"
    /\ dtorPc' = IF FinishLoopExits(dtor.finished, dtorWaits > 0)
                 THEN "notify" ELSE "wait"
    /\ UNCHANGED <<fa, fileStamp, handleOpen, backend, ctx, notified,
                   opens, strayClose, dtor, finishedAtEntry, dtorWaits,
                   dtorNotifies, otherVars>>

\* finish(): ... waiter->wait(); } which returns once the waiter is notified
\* (the timeout set by init is NEVER) and consumes the notification.
DtorWait ==
    /\ dtorPc = "wait"
    /\ notified
    /\ notified' = FALSE
    /\ dtorWaits' = dtorWaits + 1
    /\ dtorPc' = "loop"
    /\ UNCHANGED <<fa, fileStamp, handleOpen, backend, ctx, opens,
                   strayClose, dtor, finishedAtEntry, dtorNotifies, otherVars>>

\* finish(): waiter->notify() after the loop.
DtorNotify ==
    /\ dtorPc = "notify"
    /\ notified' = TRUE
    /\ dtorNotifies' = dtorNotifies + 1
    /\ dtorPc' = "close"
    /\ UNCHANGED <<fa, fileStamp, handleOpen, backend, ctx, opens,
                   strayClose, dtor, finishedAtEntry, dtorWaits, otherVars>>

\* ~AsyncIOContext after finish(): a READ context calls fa->asyncclosef();
\* the object is gone.
DtorClose ==
    /\ dtorPc = "close"
    /\ IF dtor.op = "READ"
       THEN LET r == asyncclosef(fa)
            IN  /\ fa' = r.fa
                /\ handleOpen' = (handleOpen /\ ~r.closed)
                /\ opens' = IF r.closed THEN 0 ELSE opens
                /\ strayClose' =
                      (strayClose \/ (r.closed /\ \E c \in BagToSet(ctx) :
                                                     c.op = "READ"))
       ELSE UNCHANGED <<fa, handleOpen, opens, strayClose>>
    /\ dtor' = NoContext
    /\ dtorPc' = "none"
    /\ finishedAtEntry' = FALSE
    /\ dtorWaits' = 0
    /\ dtorNotifies' = 0
    /\ UNCHANGED <<fileStamp, backend, ctx, notified, otherVars>>

AsyncNext ==
    \/ AsyncFOpen
    \/ AsyncFOpenAccess
    \/ AsyncFWrite
    \/ AsyncFRead
    \/ OperationCompletes
    \/ ExternalNotify
    \/ ClientWait
    \/ FileChanges
    \/ DtorBegin
    \/ DtorLoop
    \/ DtorWait
    \/ DtorNotify
    \/ DtorClose

SpecAsync == AsyncInit /\ [][AsyncNext]_vars

\* ------------------------------------------------ DirNotify specification

\* The (errCode, reason) pairs a watcher reports; no code and no reason is
\* shared by two pairs or with the constructor's pair.
FailPairs == {<<0, "">>, <<2, "Watch limit exceeded">>, <<3, "Permission denied">>}

\* DirNotify::DirNotify: mFailed = 1; mFailReason = "Not initialized".
InitialFailure == <<1, "Not initialized">>

\* What a copy of mFailReason yields while another thread assigns to it.
TornReason == "<torn>"

\* The (node, path) arguments of notify.
NotifyArgs == {<<"node1", <<97>>>>, <<"node2", <<98>>>>}

\* NotificationDeque::pushBack
pushBack(q, n) == Append(q, n)

\* Mutant: a DirNotify in the failed state drops the notification.
notify_DropWhenFailed(q, l, localPath, immediate) ==
    IF mFailed # 0
    THEN q
    ELSE pushBack(q, [timestamp |-> IF immediate THEN 0 ELSE ds,
                      localnode |-> l, path |-> localPath])

\* DirNotify::notify: the queue afterwards.
notify(q, l, localPath, immediate) ==
    pushBack(q, [timestamp |-> IF immediate THEN 0 ELSE ds,
                 localnode |-> l, path |-> localPath])

NotifyInit ==
    /\ CodecIdle
    /\ CompareIdle
    /\ FsTypeIdle
    /\ AsyncIdle
    /\ LaterIdle
    /\ mFailed = InitialFailure[1]
    /\ mFailReason = InitialFailure[2]
    /\ mMutex = FALSE
    /\ setPc = "idle"
    /\ errCode = 0
    /\ errReason = ""
    /\ getPc = "idle"
    /\ testedFailed = 0
    /\ reason = ""
    /\ returned = 0
    /\ notifyq = <<>>
    /\ ds = 1
    /\ pushed = <<>>
    /\ popped = <<>>

restVars == <<codecVars, compareVars, fsTypeVars, asyncVars, laterVars>>

\* setFailed is called and std::lock_guard takes mMutex.
SetFailedLock ==
    /\ setPc = "idle"
    /\ ~mMutex
    /\ \E pair \in FailPairs : errCode' = pair[1] /\ errReason' = pair[2]
    /\ mMutex' = TRUE
    /\ setPc' = "code"
    /\ UNCHANGED <<mFailed, mFailReason, getVars, queueVars, restVars>>

\* setFailed: mFailed = errCode;
SetFailedCode ==
    /\ setPc = "code"
    /\ mFailed' = errCode
    /\ setPc' = "reason"
    /\ UNCHANGED <<mFailReason, mMutex, errCode, errReason, getVars,
                   queueVars, restVars>>

\* setFailed: mFailReason = reason; the assignment has begun.
SetFailedReasonBegin ==
    /\ setPc = "reason"
    /\ mFailReason' = TornReason
    /\ setPc' = "assigning"
    /\ UNCHANGED <<mFailed, mMutex, errCode, errReason, getVars,
                   queueVars, restVars>>

\* setFailed: the assignment is complete and the lock_guard releases mMutex.
SetFailedReasonEnd ==
    /\ setPc = "assigning"
    /\ mFailReason' = errReason
    /\ mMutex' = FALSE
    /\ setPc' = "idle"
    /\ UNCHANGED <<mFailed, errCode, errReason, getVars, queueVars, restVars>>

\* getFailed: if (mFailed), read without mMutex.
GetFailedTest ==
    /\ getPc = "idle"
    /\ testedFailed' = mFailed
    /\ reason' = ""
    /\ returned' = 0
    /\ getPc' = IF mFailed # 0 THEN "copy" ELSE "return"
    /\ UNCHANGED <<failVars, queueVars, restVars>>

\* getFailed: reason = mFailReason, read without mMutex.
GetFailedCopy ==
    /\ getPc = "copy"
    /\ reason' = mFailReason
    /\ getPc' = "return"
    /\ UNCHANGED <<testedFailed, returned, failVars, queueVars, restVars>>

\* getFailed: return mFailed, read without mMutex: the value in memory now,
\* or the one if (mFailed) read where the compiler keeps it in a register.
GetFailedReturn ==
    /\ getPc = "return"
    /\ returned' \in {mFailed, testedFailed}
    /\ getPc' = "done"
    /\ UNCHANGED <<testedFailed, reason, failVars, queueVars, restVars>>

\* The consumer has used the result.
GetFailedDone ==
    /\ getPc = "done"
    /\ getPc' = "idle"
    /\ testedFailed' = 0
    /\ reason' = ""
    /\ returned' = 0
    /\ UNCHANGED <<failVars, queueVars, restVars>>

\* The watcher thread, outside setFailed, calls DirNotify::notify.
Notify ==
    /\ setPc = "idle"
    /\ Len(pushed) < MaxNotifications
    /\ \E args \in NotifyArgs, immediate \in BOOLEAN :
          /\ notifyq' = notify(notifyq, args[1], args[2], immediate)
          /\ pushed' = Append(pushed, [localnode |-> args[1], path |-> args[2],
                                       immediate |-> immediate, ds |-> ds,
                                       failed |-> mFailed # 0])
    /\ UNCHANGED <<ds, popped, failVars, getVars, restVars>>

\* The consumer pops the notification at the front of the queue.
PopFront ==
    /\ notifyq # <<>>
    /\ popped' = Append(popped, Head(notifyq))
    /\ notifyq' = Tail(notifyq)
    /\ UNCHANGED <<ds, pushed, failVars, getVars, restVars>>

\* The coarse clock advances.
Tick ==
    /\ ds < MaxTick
    /\ ds' = ds + 1
    /\ UNCHANGED <<notifyq, pushed, popped, failVars, getVars, restVars>>

NotifyNext ==
    \/ SetFailedLock
    \/ SetFailedCode
    \/ SetFailedReasonBegin
    \/ SetFailedReasonEnd
    \/ Notify
    \/ PopFront
    \/ Tick

SpecNotify == NotifyInit /\ [][NotifyNext]_vars

FailureNext ==
    \/ SetFailedLock
    \/ SetFailedCode
    \/ SetFailedReasonBegin
    \/ SetFailedReasonEnd
    \/ GetFailedTest
    \/ GetFailedCopy
    \/ GetFailedReturn
    \/ GetFailedDone

SpecFailure == NotifyInit /\ [][FailureNext]_vars

\* ------------------------------------------- islocalfscompatible specification

\* The characters the predicate is asked about: 7-bit ASCII.
AsciiBytes == 0..127

CompatInit ==
    /\ CodecIdle
    /\ CompareIdle
    /\ FsTypeIdle
    /\ AsyncIdle
    /\ NotifyIdle
    /\ OpenfIdle
    /\ PathIdle
    /\ NamePtrIdle
    /\ compatChar \in AsciiBytes
    /\ compatType \in FileSystemTypes
    /\ compatStage = "input"
    /\ compatible = FALSE

\* FileSystemAccess::islocalfscompatible(character, type)
IsLocalFsCompatible ==
    /\ compatStage = "input"
    /\ compatible' = islocalfscompatible(compatChar, compatType)
    /\ compatStage' = "done"
    /\ UNCHANGED <<compatChar, compatType, codecVars, compareVars, fsTypeVars,
                   asyncVars, notifyVars, openfVars, pathVars,
                   namePtrVars>>

CompatNext == IsLocalFsCompatible

SpecCompat == CompatInit /\ [][CompatNext]_vars

\* ------------------------------------------------------ openf specification

OpenfInit ==
    /\ CodecIdle
    /\ CompareIdle
    /\ FsTypeIdle
    /\ NotifyIdle
    /\ CompatIdle
    /\ PathIdle
    /\ NamePtrIdle
    /\ \E nb \in BOOLEAN : fa = NewFileAccess(nb, <<1, 10>>)
    /\ fileStamp = <<1, 10>>
    /\ handleOpen = FALSE
    /\ backend = "portable"
    /\ ctx = EmptyBag
    /\ notified = FALSE
    /\ dtor = NoContext
    /\ dtorPc = "idle"
    /\ finishedAtEntry = FALSE
    /\ dtorWaits = 0
    /\ dtorNotifies = 0
    /\ opens = 0
    /\ strayClose = FALSE
    /\ openfStage = "ready"
    /\ openfLast = NoOpenfCall

\* FileAccess::openf, as fread, fwrite and frawread call it.
OpenF ==
    /\ openfStage = "ready"
    /\ \E statOk \in BOOLEAN, openOk \in BOOLEAN, transient \in BOOLEAN :
          LET r == openf(fa, statOk, fileStamp, openOk, transient)
          IN  /\ fa' = r.fa
              /\ handleOpen' = (handleOpen \/ r.opened)
              /\ openfStage' = IF r.ok THEN "opened" ELSE "ready"
              /\ openfLast' =
                    [called |-> TRUE, before |-> fa, stamp |-> fileStamp,
                     statOk |-> statOk, openOk |-> openOk,
                     transient |-> transient, ok |-> r.ok,
                     statted |-> r.statted, mismatch |-> r.mismatch,
                     opened |-> r.opened,
                     previousMismatch |-> openfLast.called /\ openfLast.mismatch,
                     previousStamp |-> openfLast.stamp]
    /\ UNCHANGED <<fileStamp, backend, ctx, notified, dtorVars, opens,
                   strayClose, codecVars, compareVars, fsTypeVars, notifyVars,
                   compatVars, pathVars, namePtrVars>>

\* FileAccess::closef after the blocking operation.
CloseF ==
    /\ openfStage = "opened"
    /\ handleOpen' = (handleOpen /\ ~closef(fa))
    /\ openfStage' = "ready"
    /\ UNCHANGED <<fa, fileStamp, backend, ctx, notified, dtorVars, opens,
                   strayClose, openfLast, codecVars, compareVars, fsTypeVars,
                   notifyVars, compatVars, pathVars, namePtrVars>>

OpenfNext ==
    \/ OpenF
    \/ CloseF
    \/ FileChanges

SpecOpenf == OpenfInit /\ [][OpenfNext]_vars

\* ------------------------------------------------ LocalPath specification

\* What the paths are built from: the separator, '.', "a" and "b.c".
LocalPathPieces == {<<localseparator>>, <<46>>, <<97>>, <<98, 46, 99>>}

LocalPaths == NamesOf(LocalPathPieces, MaxPathPieces)

\* The counters insertFilenameCounter is called with.
Counters == {2, 10}

\* The operations with an additionalPath argument.
BinaryOps == {"appendWithSeparator", "prependWithSeparator"}

PathInit ==
    /\ CodecIdle
    /\ CompareIdle
    /\ FsTypeIdle
    /\ AsyncIdle
    /\ NotifyIdle
    /\ CompatIdle
    /\ OpenfIdle
    /\ NamePtrIdle
    /\ lpOp \in BinaryOps \cup {"insertFilenameCounter", "getLeafnameByteIndex"}
    /\ lpInput \in LocalPaths
    /\ lpLocalpath = lpInput
    /\ lpOther \in (IF lpOp \in BinaryOps THEN LocalPaths ELSE {<<>>})
    /\ lpAlways \in (IF lpOp = "appendWithSeparator" THEN BOOLEAN ELSE {FALSE})
    /\ lpCounter \in (IF lpOp = "insertFilenameCounter" THEN Counters ELSE {0})
    /\ lpStage = "input"
    /\ lpResult = <<>>
    /\ lpIndex = 0

pathRest ==
    <<codecVars, compareVars, fsTypeVars, asyncVars, notifyVars, compatVars,
      openfVars, namePtrVars>>

\* LocalPath::appendWithSeparator(additionalPath, separatorAlways, sep)
AppendWithSeparator ==
    /\ lpStage = "input"
    /\ lpOp = "appendWithSeparator"
    /\ lpLocalpath' = appendWithSeparator(lpLocalpath, lpOther, lpAlways)
    /\ lpStage' = "done"
    /\ UNCHANGED <<lpOp, lpInput, lpOther, lpAlways, lpCounter, lpResult,
                   lpIndex, pathRest>>

\* LocalPath::prependWithSeparator(additionalPath, sep)
PrependWithSeparator ==
    /\ lpStage = "input"
    /\ lpOp = "prependWithSeparator"
    /\ lpLocalpath' = prependWithSeparator(lpLocalpath, lpOther)
    /\ lpStage' = "done"
    /\ UNCHANGED <<lpOp, lpInput, lpOther, lpAlways, lpCounter, lpResult,
                   lpIndex, pathRest>>

\* LocalPath::insertFilenameCounter(counter, fsaccess)
InsertFilenameCounter ==
    /\ lpStage = "input"
    /\ lpOp = "insertFilenameCounter"
    /\ lpResult' = insertFilenameCounter(lpLocalpath, lpCounter)
    /\ lpStage' = "done"
    /\ UNCHANGED <<lpOp, lpInput, lpLocalpath, lpOther, lpAlways, lpCounter,
                   lpIndex, pathRest>>

\* LocalPath::getLeafnameByteIndex(fsaccess), then subpathFrom(index)
GetLeafnameByteIndex ==
    /\ lpStage = "input"
    /\ lpOp = "getLeafnameByteIndex"
    /\ lpIndex' = getLeafnameByteIndex(lpLocalpath)
    /\ lpResult' = subpathFrom(lpLocalpath, lpIndex')
    /\ lpStage' = "done"
    /\ UNCHANGED <<lpOp, lpInput, lpLocalpath, lpOther, lpAlways, lpCounter,
                   pathRest>>

PathNext ==
    \/ AppendWithSeparator
    \/ PrependWithSeparator
    \/ InsertFilenameCounter
    \/ GetLeafnameByteIndex

SpecPath == PathInit /\ [][PathNext]_vars


\* ------------------------------------------------------- NameCodec claims

\* The indices of s holding a '%' that does not begin the escape token of a
\* control byte.
NonControlPercents(s) ==
    {i \in 1..Len(s) :
        /\ s[i] = 37
        /\ ~(decodeEscapeAt(s, i) >= 0 /\ iscntrl(decodeEscapeAt(s, i)))}

HasRawControl(s) == \E i \in 1..Len(s) : iscntrl(s[i])

\* s with every raw control byte replaced by its escape token, byte by byte.
RECURSIVE ExpandControls(_)
ExpandControls(s) ==
    IF s = <<>> THEN <<>>
    ELSE (IF iscntrl(Head(s)) THEN EscapeToken(Head(s)) ELSE <<Head(s)>>)
         \o ExpandControls(Tail(s))

\* C1 (as stated): escapefsincompatible is idempotent: escaping the already
\* escaped name changes nothing, for every name and every FileSystemType.
C1_EscapeIdempotent ==
    stage = "escaped2" => out = prev

\* C1 (amended): escaping the escaped name E = escape(N,T) again leaves it
\* unchanged exactly when E holds no escape token of a non-control byte;
\* otherwise the '%' of every such token is escaped again as "%25", making
\* the result two bytes longer per token.
C1_EscapeIdempotentOnlyWithoutTokens ==
    stage = "escaped2" =>
        /\ (out = prev) <=> (NonControlPercents(prev) = {})
        /\ Len(out) = Len(prev) + 2 * Cardinality(NonControlPercents(prev))

\* C1 witness: a name that escaping changed and whose escaped form the second
\* application left alone (its only tokens encode control bytes).
C1_Witness ==
    /\ stage = "escaped2"
    /\ inName = <<1, 50>>
    /\ fsType = "FS_NTFS"
    /\ prev = <<37, 48, 49, 50>>
    /\ out = prev

\* C2: unescape(escape(N,T)) equals canonicalize(N): N itself when N holds no
\* raw control byte (so "." and ".." come back unchanged), and N with each
\* raw control byte turned into its escape token otherwise.
C2_RoundTrip ==
    stage = "unescaped" =>
        /\ out = canonicalize(inName)
        /\ out = ExpandControls(inName)
        /\ ~HasRawControl(inName) => out = inName

\* C2 witness: a name with a '%' and a byte incompatible with the filesystem
\* was escaped to something else and came back unchanged.
C2_Witness ==
    /\ stage = "unescaped"
    /\ inName = <<37, 50, 58>>
    /\ fsType = "FS_NTFS"
    /\ prev = <<37, 50, 53, 50, 37, 51, 97>>
    /\ out = inName

\* C8: the escaped name on the local side compares equal (0) to the original
\* name on the remote side under LocalPath::compare(const string&), for
\* every name and every FileSystemType.
C8_EscapedEqualsRemote ==
    stage = "compared" => cmp = 0

\* C8 witness: "2%:" escaped for NTFS is "2%25%3a" and compares equal to the
\* remote "2%:".
C8_Witness ==
    /\ stage = "compared"
    /\ inName = <<50, 37, 58>>
    /\ fsType = "FS_NTFS"
    /\ out = <<50, 37, 50, 53, 37, 51, 97>>
    /\ cmp = 0

\* C10: canonicalize is idempotent, its output holds no raw control byte, and
\* it changes nothing but the raw control bytes (escape tokens already in the
\* name stay as they are).
C10_CanonicalizeIdempotent ==
    /\ stage = "canon2" => out = prev
    /\ stage = "canon" => ~HasRawControl(out) /\ out = ExpandControls(inName)

\* C10 witness: a name with a raw control byte next to an escape token was
\* canonicalized twice.
C10_Witness ==
    /\ stage = "canon2"
    /\ inName = <<1, 37, 48, 49>>
    /\ out = <<37, 48, 49, 37, 48, 49>>

\* ------------------------------------------------- UnicodeComparator claims

Sign(x) == IF x < 0 THEN -1 ELSE IF x > 0 THEN 1 ELSE 0

\* The comparison C9 is about, for the transform of the current state.
FsLocalCompare(a, b) == localCompare(a, 1, b, 1, transform)

\* The codepoints a path decodes to (every escape token decoded), transformed.
RECURSIVE DecodedFrom(_, _, _)
DecodedFrom(s, i, t) ==
    IF itEnd(s, i) THEN <<>>
    ELSE LET g == IF isEscape(s, i) THEN decodeEscape(s, i) ELSE itGet(s, i)
         IN  <<Transform(t, g.cp)>> \o DecodedFrom(s, g.next, t)

IsProperPrefix(p, q) == Len(p) < Len(q) /\ SubSeq(q, 1, Len(p)) = p

\* C9: compare and ciCompare on two LocalPaths are a strict weak ordering:
\* a path compares 0 with itself, swapping the arguments flips the sign,
\* "less" and "equivalent" are transitive, and a path whose decoded
\* codepoints are a proper prefix of another's sorts first.
C9_StrictWeakOrdering ==
    cmpStage = "compared" =>
        /\ self = 0
        /\ Sign(result) = -Sign(reverse)
        /\ \A c \in CompareNames :
              /\ (result < 0 /\ FsLocalCompare(rhs, c) < 0)
                     => FsLocalCompare(lhs, c) < 0
              /\ (result = 0 /\ FsLocalCompare(rhs, c) = 0)
                     => FsLocalCompare(lhs, c) = 0
        /\ IsProperPrefix(DecodedFrom(lhs, 1, transform),
                          DecodedFrom(rhs, 1, transform)) => result < 0

\* C9 witness: under ciCompare "a%41" (decoded "aA") sorts before the
\* multi-byte "a" U+00E9, and the swapped call is positive.
C9_Witness ==
    /\ cmpStage = "compared"
    /\ transform = "toUpper"
    /\ lhs = <<97, 37, 52, 49>>
    /\ rhs = <<97, 195, 169>>
    /\ result < 0
    /\ reverse > 0

\* --------------------------------------------------- filesystem-type claims

\* The path with its trailing separator and its final component removed.
StripLeaf(p) ==
    LET t == IF p # <<>> /\ p[Len(p)] = 47 THEN SubSeq(p, 1, Len(p) - 1) ELSE p
        seps == {i \in 1..Len(t) : t[i] = 47}
    IN  IF seps = {} THEN <<>>
        ELSE SubSeq(t, 1, CHOOSE i \in seps : \A j \in seps : j <= i)

\* The type of the nearest ancestor that resolves, going up parent by parent
\* until the path is empty.
RECURSIVE NearestAncestorType(_, _)
NearestAncestorType(w, p) ==
    IF p = <<>> THEN "FS_UNKNOWN"
    ELSE IF PlatformResolves(w, p) THEN PlatformType(p)
    ELSE NearestAncestorType(w, StripLeaf(p))

\* C3 (as stated): getlocalfstype returns the type of the path's nearest
\* existing ancestor, however many missing components lie in between, and
\* FS_UNKNOWN only when the path is empty or no ancestor resolves.
C3_NearestAncestor ==
    fsStage = "done" => fsResult = NearestAncestorType(exists, path)

\* C3 (amended): a path that resolves gets its own type; one that does not
\* gets the type of its immediate parent (trailing separator and final
\* component removed) when the separator ending that parent is not the
\* first byte of the path and the parent resolves; in every other case,
\* also when a more distant ancestor resolves, the result is FS_UNKNOWN.
C3_ImmediateParentOnly ==
    fsStage = "done" =>
        LET parent == StripLeaf(path)
        IN  fsResult =
                IF path = <<>> THEN "FS_UNKNOWN"
                ELSE IF PlatformResolves(exists, path) THEN PlatformType(path)
                ELSE IF Len(parent) >= 2 /\ PlatformResolves(exists, parent)
                THEN PlatformType(parent)
                ELSE "FS_UNKNOWN"

\* C3 witness: "a/b/" does not exist, its parent "a/" does, and the parent's
\* type is returned.
C3_Witness ==
    /\ fsStage = "done"
    /\ path = <<97, 47, 98, 47>>
    /\ exists = {<<>>, <<<<97>>>>}
    /\ fsResult = "FS_NTFS"

\* ---------------------------------------------------- asynchronous I/O claims

\* The destructor is somewhere between its entry and its return.
InDestructor == dtorPc \in {"loop", "wait", "notify", "close"}

\* C4: a destructor that finds finished set never waits and never notifies;
\* one that finds the context pending gets past finish() only once finished
\* is set, whatever else wakes the waiter, sends no notification before
\* that and exactly one after it.
C4_DestructorParksUntilFinished ==
    InDestructor =>
        /\ dtorPc \in {"notify", "close"} => dtor.finished
        /\ finishedAtEntry =>
              /\ dtorWaits = 0
              /\ dtorNotifies = 0
              /\ dtorPc \notin {"loop", "wait", "notify"}
        /\ (~finishedAtEntry /\ dtorPc \in {"loop", "wait", "notify"})
              => dtorNotifies = 0
        /\ (~finishedAtEntry /\ dtorPc = "close") => dtorNotifies = 1

\* C4 witness: the destructor found the context pending, was woken twice
\* before the operation completed, and left finish() after one notification.
C4_Witness ==
    /\ dtorPc = "close"
    /\ ~finishedAtEntry
    /\ dtorWaits >= 2
    /\ dtorNotifies = 1

\* The number of READ contexts that exist.
LiveReads ==
    BagCardinality([c \in {d \in BagToSet(ctx) : d.op = "READ"} |-> ctx[c]])
        + (IF dtor.op = "READ" THEN 1 ELSE 0)

\* C5: numAsyncReads is the number of live READ contexts; the handle is
\* opened at most once while readers are outstanding, is open only while a
\* READ context is alive and is never closed under another live READ
\* context; with no context left numAsyncReads is 0 and isAsyncOpened false.
C5_ReaderCounting ==
    dtorPc # "idle" =>
        /\ fa.numAsyncReads = LiveReads
        /\ opens <= 1
        /\ ~strayClose
        /\ fa.isAsyncOpened = handleOpen
        /\ handleOpen => LiveReads > 0
        /\ NumContexts = 0 => fa.numAsyncReads = 0 /\ ~fa.isAsyncOpened

\* C5 witness: two reads share the handle one sysopen opened, and the
\* destructor of one of them is about to call asyncclosef.
C5_Witness ==
    /\ dtorPc = "close"
    /\ dtor.op = "READ"
    /\ fa.numAsyncReads = 2
    /\ LiveReads = 2
    /\ fa.isAsyncOpened
    /\ handleOpen
    /\ opens = 1

\* The notification a notify call is to enqueue.
Expected(call) ==
    [timestamp |-> IF call.immediate THEN 0 ELSE call.ds,
     localnode |-> call.localnode, path |-> call.path]

\* C6: every notify call, whatever the failure state it was made in, put
\* exactly one notification at the back of the queue, carrying its node and
\* path and the tick 0 when immediate and Waiter::ds otherwise; the consumer
\* pops the notifications in the order of the calls.
C6_NotifyEnqueuesInOrder ==
    LET all == popped \o notifyq
    IN  /\ Len(all) = Len(pushed)
        /\ \A i \in 1..Len(pushed) : all[i] = Expected(pushed[i])

\* C6 witness: a notify made in the initial failed state and a later one
\* made after the failure was cleared, one immediate and one stamped with a
\* later tick, have both been popped.
C6_Witness ==
    /\ Len(pushed) = 2
    /\ Len(popped) = 2
    /\ pushed[1].failed /\ ~pushed[2].failed
    /\ pushed[1].immediate /\ ~pushed[2].immediate
    /\ popped[1].timestamp = 0
    /\ popped[2].timestamp = 2
    /\ popped[1].localnode # popped[2].localnode

\* C7: getFailed returns a code with the reason set together with it: a
\* pair some setFailed call wrote, or the constructor's.
C7_PairNeverOutOfSync ==
    (getPc = "done" /\ returned # 0)
        => <<returned, reason>> \in FailPairs \cup {InitialFailure}


\* ------------------------------------------------ islocalfscompatible claims

\* The bytes below 0x20 and 0x7f.
ControlBytes == (0..31) \cup {127}

\* The characters \ / : ? " < > | *
FatFamilyForbidden == {92, 47, 58, 63, 34, 60, 62, 124, 42}

\* The characters the table rejects for a type, with the control bytes
\* rejected for APFS and HFS or not.
TableRejects(type, apfsRejectsControls) ==
    {0, 37} \cup
    (IF type \in {"FS_APFS", "FS_HFS"}
     THEN {58, 47} \cup (IF apfsRejectsControls THEN ControlBytes ELSE {})
     ELSE IF type \in {"FS_EXT", "FS_F2FS", "FS_XFS"} THEN {47}
     ELSE ControlBytes \cup FatFamilyForbidden)

\* C11 (as stated): the predicate matches the table in which APFS and HFS
\* reject ':' and '/' and do not accept control bytes, EXT, F2FS and XFS
\* reject only '/', and the other types reject the control bytes and
\* \ / : ? " < > | *, NUL and '%' being rejected everywhere.
C11_CompatibilityTable ==
    compatStage = "done" =>
        (compatible <=> compatChar \notin TableRejects(compatType, TRUE))

\* C11 (amended): the same table, except that APFS and HFS reject nothing
\* but NUL, '%', ':' and '/': control bytes other than NUL are accepted
\* there, as they are for EXT, F2FS and XFS.
C11_ControlsAcceptedOnApfs ==
    compatStage = "done" =>
        (compatible <=> compatChar \notin TableRejects(compatType, FALSE))

\* C11 witness: the control byte 0x01 was found compatible with APFS.
C11_Witness ==
    /\ compatStage = "done"
    /\ compatChar = 1
    /\ compatType = "FS_APFS"
    /\ compatible


\* ------------------------------------------------- portable fallback claims

\* The AsyncIOContext objects that exist.
Contexts == BagToSet(ctx) \cup (IF dtor.live THEN {dtor} ELSE {})

\* C12 (as stated): with the portable fallback every context the asyncf*
\* calls have returned is finished, as a permanent failure (failed and not
\* retry), with its callback invoked exactly once; none is ever unfinished.
C12_PortableAlwaysPermanentFailure ==
    backend = "portable" =>
        \A c \in Contexts :
            c.finished /\ c.failed /\ ~c.retry /\ c.callbacks = 1

\* C12 (amended): with the portable fallback every context is finished when
\* its call returns and stays so, with exactly one callback; it is a
\* permanent failure when asyncsysopen, asyncsysread or asyncsyswrite
\* completed it, which is the case of every WRITE context; a READ context
\* completed by asyncfread itself is failed; an OPEN context completed by
\* asyncfopen(path) itself may be a success.
C12_PortableFinishedOnReturn ==
    backend = "portable" =>
        \A c \in Contexts :
            /\ c.finished
            /\ c.callbacks = 1
            /\ c.fallback => c.failed /\ ~c.retry
            /\ c.op = "WRITE" => c.fallback
            /\ (c.op = "READ" /\ ~c.fallback) => c.failed
            /\ ~c.failed => c.op = "OPEN" /\ ~c.fallback

\* C12 witness: with the portable fallback, a context that asyncsys*
\* failed for good exists next to an OPEN context of asyncfopen(path) that
\* succeeded.
C12_Witness ==
    /\ backend = "portable"
    /\ \E c \in Contexts : c.fallback /\ c.finished /\ c.failed /\ c.callbacks = 1
    /\ \E c \in Contexts : c.op = "OPEN" /\ c.finished /\ ~c.failed


\* ------------------------------------------------------------- openf claims

\* C13: for the last openf call. Not in nonblocking mode it returns true
\* without a stat and changes nothing. In nonblocking mode, when sysstat
\* reports a pair different from the cached one, the reported pair is
\* stored, retry is false, the call fails and the handle is not opened;
\* when it reports the cached pair, the cached pair is kept, no mismatch is
\* reported, the result is that of sysopen, and retry is as it was (unless
\* sysopen failed and the platform stored its transient flag). A call that
\* follows a mismatch failure on a file with the same (mtime, size) as then
\* does not fail for mismatch.
C13_OpenfMismatch ==
    LET c == openfLast
        cached == <<c.before.mtime, c.before.size>>
    IN  (openfStage # "none" /\ c.called) =>
            /\ ~c.before.nonblocking =>
                  c.ok /\ ~c.statted /\ ~c.opened /\ fa = c.before
            /\ (c.before.nonblocking /\ c.statOk /\ c.stamp # cached) =>
                  /\ ~c.ok /\ c.mismatch /\ ~c.opened
                  /\ <<fa.mtime, fa.size>> = c.stamp
                  /\ ~fa.retry
            /\ (c.before.nonblocking /\ c.statOk /\ c.stamp = cached) =>
                  /\ ~c.mismatch
                  /\ <<fa.mtime, fa.size>> = cached
                  /\ c.ok = c.openOk
                  /\ c.opened = c.openOk
                  /\ fa.retry = IF c.openOk THEN c.before.retry ELSE c.transient
            /\ (c.previousMismatch /\ c.previousStamp = c.stamp /\ c.statOk) =>
                  ~c.mismatch

\* C13 witness: an openf that followed a mismatch failure, on the file as
\* it was then, found the pair unchanged and opened the handle.
C13_Witness ==
    /\ openfStage = "opened"
    /\ openfLast.called
    /\ openfLast.previousMismatch
    /\ openfLast.previousStamp = openfLast.stamp
    /\ openfLast.stamp = <<2, 10>>
    /\ openfLast.ok
    /\ handleOpen


\* --------------------------------------------------- LocalPath algebra claims

\* ------------------------------------------------- NamePtrCmp specification

\* The pieces names are made of: 'a', 'A' and 'b'.
NamePieces == {<<97>>, <<65>>, <<98>>}

Names == NamesOf(NamePieces, MaxNamePieces)

NamePtrInit ==
    /\ CodecIdle
    /\ CompareIdle
    /\ FsTypeIdle
    /\ AsyncIdle
    /\ NotifyIdle
    /\ CompatIdle
    /\ OpenfIdle
    /\ PathIdle
    /\ mType \in FileSystemTypes
    /\ nameLhs \in Names
    /\ nameRhs \in Names
    /\ namePtrStage = "input"
    /\ forward = FALSE
    /\ backward = FALSE
    /\ same = FALSE

\* NamePtrCmp(mType)(&lhs, &rhs), (&rhs, &lhs) and (&lhs, &lhs).
NamePtrCall ==
    /\ namePtrStage = "input"
    /\ forward' = NamePtrCmp(mType, nameLhs, nameRhs)
    /\ backward' = NamePtrCmp(mType, nameRhs, nameLhs)
    /\ same' = NamePtrCmp(mType, nameLhs, nameLhs)
    /\ namePtrStage' = "compared"
    /\ UNCHANGED <<mType, nameLhs, nameRhs, codecVars, compareVars, fsTypeVars,
                   asyncVars, notifyVars, compatVars, openfVars, pathVars>>

NamePtrNext == NamePtrCall

SpecNamePtr == NamePtrInit /\ [][NamePtrNext]_vars


\* first and second joined by exactly one separator: a separator ending
\* first or beginning second is that separator.
JoinedByOne(first, second) ==
    LET head == IF first[Len(first)] = 47
                THEN SubSeq(first, 1, Len(first) - 1) ELSE first
        tail == IF second[1] = 47 THEN SubSeq(second, 2, Len(second)) ELSE second
    IN  head \o <<47>> \o tail

\* C14: with both parts non-empty, appendWithSeparator and
\* prependWithSeparator leave exactly one separator between the parts,
\* also when the first ends with one or the second begins with one; with
\* separatorAlways false and an empty receiver appendWithSeparator gives
\* the argument.
C14_OneSeparatorAtJunction ==
    lpStage = "done" =>
        /\ (lpOp = "appendWithSeparator" /\ lpInput # <<>> /\ lpOther # <<>>)
              => lpLocalpath = JoinedByOne(lpInput, lpOther)
        /\ (lpOp = "prependWithSeparator" /\ lpInput # <<>> /\ lpOther # <<>>)
              => lpLocalpath = JoinedByOne(lpOther, lpInput)
        /\ (lpOp = "appendWithSeparator" /\ lpInput = <<>> /\ ~lpAlways)
              => lpLocalpath = lpOther


\* The 1-based positions of character ch in s.
PositionsOf(s, ch) == {i \in 1..Len(s) : s[i] = ch}

\* Where " (N)" goes: before the last '.', if that dot lies after the last
\* separator; otherwise at the end of the path. 1-based index of the byte
\* the text is put in front of.
CounterPosition(s) ==
    LET dots == PositionsOf(s, 46)
        seps == PositionsOf(s, 47)
        lastDot == CHOOSE i \in dots : \A j \in dots : j <= i
    IN  IF dots = {} THEN Len(s) + 1
        ELSE IF \E i \in seps : i > lastDot THEN Len(s) + 1
        ELSE lastDot

\* " (2)" and " (10)".
CounterSuffix(n) == IF n = 2 THEN <<32, 40, 50, 41>> ELSE <<32, 40, 49, 48, 41>>

\* C15: insertFilenameCounter returns the path with " (N)" put immediately
\* before the extension (the last '.', if after the last separator) or at
\* the end when there is no such dot; every other byte is kept in order and
\* the receiver is unchanged.
C15_CounterBeforeExtension ==
    (lpStage = "done" /\ lpOp = "insertFilenameCounter") =>
        LET at == CounterPosition(lpInput)
        IN  /\ lpResult = SubSeq(lpInput, 1, at - 1) \o CounterSuffix(lpCounter)
                              \o SubSeq(lpInput, at, Len(lpInput))
            /\ lpLocalpath = lpInput

\* C15 witness: "b.cb.c", which has two dots as "archive.tar.gz" has, with
\* counter 2 gives "b.cb (2).c".
C15_Witness ==
    /\ lpStage = "done"
    /\ lpOp = "insertFilenameCounter"
    /\ lpInput = <<98, 46, 99, 98, 46, 99>>
    /\ lpCounter = 2
    /\ lpResult = <<98, 46, 99, 98, 32, 40, 50, 41, 46, 99>>

\* The dot of an earlier component does not count: "b.c/a" with counter 10
\* gives "b.c/a (10)".
C15_WitnessEarlierDot ==
    /\ lpStage = "done"
    /\ lpOp = "insertFilenameCounter"
    /\ lpInput = <<98, 46, 99, 47, 97>>
    /\ lpCounter = 10
    /\ lpResult = <<98, 46, 99, 47, 97, 32, 40, 49, 48, 41>>

\* The index just after the last separator of s, 0-based; 0 without one.
AfterLastSeparator(s) ==
    LET seps == PositionsOf(s, 47)
    IN  IF seps = {} THEN 0 ELSE CHOOSE i \in seps : \A j \in seps : j <= i

\* C16: getLeafnameByteIndex is the index just after the last separator
\* (0 without a separator), so that subpathFrom of it is leafName, also for
\* a path whose only separator is its first byte.
C16_LeafIndexAgreesWithLeafName ==
    (lpStage = "done" /\ lpOp = "getLeafnameByteIndex") =>
        /\ lpIndex = AfterLastSeparator(lpInput)
        /\ lpResult = leafName(lpInput)


\* The sign of the three-way comparison of two names under a filesystem
\* type: code points compared after folding to upper case on the
\* case-insensitive types, a proper prefix first.
RECURSIVE ThreeWay(_, _, _)
ThreeWay(type, a, b) ==
    LET fold(c) == IF type \in {"FS_EXFAT", "FS_FAT32", "FS_NTFS", "FS_UNKNOWN"}
                       /\ c >= 97 /\ c <= 122
                   THEN c - 32 ELSE c
    IN  IF a = <<>> /\ b = <<>> THEN 0
        ELSE IF a = <<>> THEN -1
        ELSE IF b = <<>> THEN 1
        ELSE IF fold(a[1]) # fold(b[1]) THEN fold(a[1]) - fold(b[1])
        ELSE ThreeWay(type, Tail(a), Tail(b))

\* C17: NamePtrCmp is a strict weak ordering: never true for a name against
\* itself, never true in both directions, and true exactly when the
\* three-way comparison of the two names is negative.
C17_StrictWeakOrdering ==
    namePtrStage = "compared" =>
        /\ ~same
        /\ ~(forward /\ backward)
        /\ forward <=> (ThreeWay(mType, nameLhs, nameRhs) < 0)
        /\ backward <=> (ThreeWay(mType, nameRhs, nameLhs) < 0)

=============================================================================
